---------------------------- MODULE Spec2Model ----------------------------
(***************************************************************************)
(* pkcegen: generation of an OAuth2 PKCE authorization-request payload.    *)
(*                                                                         *)
(* Text is modelled as a sequence of code points (Python str) and binary   *)
(* data as a sequence of octets (Python bytes), so that base64 encoding,   *)
(* padding removal and form encoding are computed, not assumed.            *)
(*                                                                         *)
(* The module-level function pkce is decorated with @staticmethod; it is   *)
(* modelled as callable, which is what Python 3.10 and later do.           *)
(***************************************************************************)
EXTENDS Integers, Sequences, FiniteSets, TLC

(***************************************************************************)
(* Bounds of the model.                                                    *)
(***************************************************************************)
\* Number of distinct outcomes the random source can give for one draw.
NumSeeds == 2
\* Number of caller threads in the concurrent specification.
NumThreads == 2

(***************************************************************************)
(* Text literals of the source, as code points.                            *)
(***************************************************************************)
S256 == <<83, 50, 53, 54>>
plain == <<112, 108, 97, 105, 110>>
K_client_id == <<99, 108, 105, 101, 110, 116, 95, 105, 100>>
K_scope == <<115, 99, 111, 112, 101>>
K_redirect_uri == <<114, 101, 100, 105, 114, 101, 99, 116, 95, 117, 114, 105>>
K_code_challenge == <<99, 111, 100, 101, 95, 99, 104, 97, 108, 108, 101, 110, 103, 101>>
K_code_challenge_method == K_code_challenge \o <<95, 109, 101, 116, 104, 111, 100>>
K_state == <<115, 116, 97, 116, 101>>
K_nonce == <<110, 111, 110, 99, 101>>

\* The messages of the two ValueErrors the module raises itself, and of the
\* one os.urandom raises for a negative size.
MsgLength == "Code verifier length must be between 43 and 128 characters."
MsgMethod == "Unsupported code_challenge_method. Choose either 'S256' or 'plain'."
MsgNegative == "negative argument not allowed"

(***************************************************************************)
(* Outcome of a Python call: a returned value or a raised exception.       *)
(***************************************************************************)
Return(v) == [ok |-> TRUE, val |-> v]
Raise(type, msg) == [ok |-> FALSE, type |-> type, msg |-> msg]
None == [none |-> TRUE]

(***************************************************************************)
(* base64.urlsafe_b64encode, bytes.rstrip / str.rstrip, str.encode/decode  *)
(***************************************************************************)
\* The standard base64 alphabet: A-Z a-z 0-9 + /
StdAlphabet(i) ==
    IF i < 26 THEN 65 + i
    ELSE IF i < 52 THEN 97 + (i - 26)
    ELSE IF i < 62 THEN 48 + (i - 52)
    ELSE IF i = 62 THEN 43 ELSE 47

Pow64(k) == IF k = 0 THEN 1 ELSE IF k = 1 THEN 64 ELSE IF k = 2 THEN 4096 ELSE 262144

\* base64.b64encode: every 3 octets give 4 characters; a final group of 1 or
\* 2 octets is zero-filled and its unused characters are "=" (61).
b64encode(bs) ==
    LET n == Len(bs)
        At(i) == IF i <= n THEN bs[i] ELSE 0
        Char(k) ==
            LET g == (k - 1) \div 4
                j == (k - 1) % 4
                r == n - 3 * g
                v == At(3 * g + 1) * 65536 + At(3 * g + 2) * 256 + At(3 * g + 3)
            IN IF j > r THEN 61 ELSE StdAlphabet((v \div Pow64(3 - j)) % 64)
    IN [k \in 1..(4 * ((n + 2) \div 3)) |-> Char(k)]

\* urlsafe_b64encode translates "+" to "-" and "/" to "_".
urlsafe_b64encode(bs) ==
    LET e == b64encode(bs)
    IN [k \in 1..Len(e) |-> IF e[k] = 43 THEN 45 ELSE IF e[k] = 47 THEN 95 ELSE e[k]]

\* rstrip(c): drop every trailing occurrence of c.
rstrip(s, c) ==
    LET k == CHOOSE i \in 0..Len(s) :
                 /\ (i = 0 \/ s[i] # c)
                 /\ \A j \in (i + 1)..Len(s) : s[j] = c
    IN SubSeq(s, 1, k)

\* bytes.decode('ascii') / str.encode('ascii'): the identity on 0..127, a
\* UnicodeError otherwise.
IsAscii(s) == \A i \in 1..Len(s) : s[i] < 128
decode_ascii(bs) == IF IsAscii(bs) THEN Return(bs) ELSE Raise("UnicodeDecodeError", "ascii")
encode_ascii(s) == IF IsAscii(s) THEN Return(s) ELSE Raise("UnicodeEncodeError", "ascii")

(***************************************************************************)
(* hashlib.sha256(...).digest(): a fixed function from octet strings to 32 *)
(* octets.  The digest algorithm belongs to the host library; the model    *)
(* uses a stand-in of the same shape (32 octets, depending on every octet  *)
(* of the message, on its order and on its length).                        *)
(***************************************************************************)
RECURSIVE SumRange(_, _, _, _)
SumRange(bs, lo, hi, weighted) ==
    IF lo > hi THEN 0
    ELSE IF lo = hi THEN (IF weighted THEN lo * bs[lo] ELSE bs[lo])
    ELSE LET mid == (lo + hi) \div 2
         IN SumRange(bs, lo, mid, weighted) + SumRange(bs, mid + 1, hi, weighted)

sha256_digest(bs) ==
    LET a == SumRange(bs, 1, Len(bs), FALSE)
        b == SumRange(bs, 1, Len(bs), TRUE)
    IN [i \in 1..32 |-> (a * i + b + 31 * Len(bs) + 7 * i * i + 99) % 256]

(***************************************************************************)
(* urllib.parse.urlencode of a dict of str keys and str values             *)
(***************************************************************************)
\* str.encode('utf-8') of one code point below 0x800.
utf8(c) ==
    IF c < 128 THEN <<c>>
    ELSE <<192 + (c \div 64), 128 + (c % 64)>>

HexDigit(d) == IF d < 10 THEN 48 + d ELSE 65 + (d - 10)

\* Characters quote never escapes: letters, digits and "_.-~".
AlwaysSafe(b) ==
    \/ b \in 65..90
    \/ b \in 97..122
    \/ b \in 48..57
    \/ b \in {95, 46, 45, 126}

\* The concatenation of the sequences parts[lo], ..., parts[hi].
RECURSIVE ConcatRange(_, _, _)
ConcatRange(parts, lo, hi) ==
    IF lo > hi THEN <<>>
    ELSE IF lo = hi THEN parts[lo]
    ELSE LET mid == (lo + hi) \div 2
         IN ConcatRange(parts, lo, mid) \o ConcatRange(parts, mid + 1, hi)

\* quote_from_bytes on one octet: itself when safe, else "%XX".
QuoteByte(b) == IF AlwaysSafe(b) THEN <<b>> ELSE <<37, HexDigit(b \div 16), HexDigit(b % 16)>>

\* quote_plus on one character: a space becomes "+", anything else is
\* UTF-8 encoded and quoted octet by octet.
QuoteChar(c) ==
    IF c = 32 THEN <<43>>
    ELSE LET bs == utf8(c)
         IN ConcatRange([i \in 1..Len(bs) |-> QuoteByte(bs[i])], 1, Len(bs))

quote_plus(s) == ConcatRange([i \in 1..Len(s) |-> QuoteChar(s[i])], 1, Len(s))

\* urlencode: "k=v" for every item in insertion order, joined by "&".
urlencode(items) ==
    ConcatRange([i \in 1..Len(items) |->
                    (IF i = 1 THEN <<>> ELSE <<38>>)
                    \o quote_plus(items[i][1]) \o <<61>> \o quote_plus(items[i][2])],
                1, Len(items))

(***************************************************************************)
(* State.  For every caller thread c:                                      *)
(*   pc[c]       "idle", the line of the _gen_p statement to run next,     *)
(*               "returned" or "raised"                                    *)
(*   args[c]     the arguments of its pkce call                            *)
(*   instance[c] the fields of the PKCE instance pkce constructed          *)
(*   local[c]    the local names _gen_p has bound so far                   *)
(*   outcome[c]  what pkce returned or raised, None while it runs         *)
(*   drawn[c]    the octet strings os.urandom gave the call, in order      *)
(* derived is the latest direct derivation of a challenge: its inputs and  *)
(* its outcome.                                                            *)
(***************************************************************************)
VARIABLES pc, args, instance, local, outcome, drawn, derived

vars == <<pc, args, instance, local, outcome, drawn, derived>>

(***************************************************************************)
(* os.urandom: the host's secure random source.  One draw is atomic and    *)
(* gives one of NumSeeds octet strings of the requested size; a negative   *)
(* size is a ValueError.                                                   *)
(***************************************************************************)
Octets(seed, n) == [i \in 1..n |-> (255 - seed * 4 + (i - 1) * seed * 59) % 256]

os_urandom(n) ==
    IF n < 0 THEN {Raise("ValueError", MsgNegative)}
    ELSE {Return(Octets(seed, n)) : seed \in 0..(NumSeeds - 1)}

(***************************************************************************)
(* class PKCE.  A method is an operator giving the set of its possible     *)
(* outcomes, each with the octet strings it drew from os.urandom.          *)
(***************************************************************************)
PKCE_init(client_id, redirect_uri, scope, code_challenge_method) ==
    [client_id |-> client_id, redirect_uri |-> redirect_uri, scope |-> scope,
     code_challenge_method |-> code_challenge_method]

\* Variant: the lower bound the error message documents.
_code_v_Min43(self, length) ==
    IF ~(43 <= length /\ length <= 128)
    THEN {[res |-> Raise("ValueError", MsgLength), draws |-> <<>>]}
    ELSE {IF r.ok
          THEN [res |-> decode_ascii(rstrip(urlsafe_b64encode(r.val), 61)),
                draws |-> <<r.val>>]
          ELSE [res |-> r, draws |-> <<>>] : r \in os_urandom(length)}

_code_v(self, length) ==
    IF ~(32 <= length /\ length <= 128)
    THEN {[res |-> Raise("ValueError", MsgLength), draws |-> <<>>]}
    ELSE {IF r.ok
          THEN [res |-> decode_ascii(rstrip(urlsafe_b64encode(r.val), 61)),
                draws |-> <<r.val>>]
          ELSE [res |-> r, draws |-> <<>>] : r \in os_urandom(length)}

\* Variant: any method other than "S256" is treated as "plain".
_code_c_ElsePlain(self, code_verifier) ==
    IF self.code_challenge_method = S256
    THEN LET e == encode_ascii(code_verifier)
         IN IF e.ok
            THEN decode_ascii(rstrip(urlsafe_b64encode(sha256_digest(e.val)), 61))
            ELSE e
    ELSE Return(code_verifier)

\* Variant: the latest S256 challenge is kept and reused for the next
\* verifier.
_code_c_Cached(self, code_verifier) ==
    IF self.code_challenge_method = S256
    THEN IF derived # None /\ derived.method = S256 /\ derived.out.ok
         THEN derived.out
         ELSE LET e == encode_ascii(code_verifier)
              IN IF e.ok
                 THEN decode_ascii(rstrip(urlsafe_b64encode(sha256_digest(e.val)), 61))
                 ELSE e
    ELSE IF self.code_challenge_method = plain
    THEN Return(code_verifier)
    ELSE Raise("ValueError", MsgMethod)

_code_c(self, code_verifier) ==
    IF self.code_challenge_method = S256
    THEN LET e == encode_ascii(code_verifier)
         IN IF e.ok
            THEN decode_ascii(rstrip(urlsafe_b64encode(sha256_digest(e.val)), 61))
            ELSE e
    ELSE IF self.code_challenge_method = plain
    THEN Return(code_verifier)
    ELSE Raise("ValueError", MsgMethod)

_s(self, length) ==
    {IF r.ok
     THEN LET d == decode_ascii(urlsafe_b64encode(r.val))
          IN [res |-> IF d.ok THEN Return(rstrip(d.val, 61)) ELSE d, draws |-> <<r.val>>]
     ELSE [res |-> r, draws |-> <<>>] : r \in os_urandom(length)}

_n(self, length) ==
    {IF r.ok
     THEN LET d == decode_ascii(urlsafe_b64encode(r.val))
          IN [res |-> IF d.ok THEN Return(rstrip(d.val, 61)) ELSE d, draws |-> <<r.val>>]
     ELSE [res |-> r, draws |-> <<>>] : r \in os_urandom(length)}

\* Variant: the verifier itself is sent as the code_challenge.
_gen_p_data_ChallengeIsVerifier(self, code_verifier, code_challenge, state, nonce) ==
    << <<K_client_id, self.client_id>>,
       <<K_scope, self.scope>>,
       <<K_redirect_uri, self.redirect_uri>>,
       <<K_code_challenge, code_verifier>>,
       <<K_code_challenge_method, self.code_challenge_method>>,
       <<K_state, state>>,
       <<K_nonce, nonce>> >>

\* Variant: the verifier is sent as the state.
_gen_p_data_StateIsVerifier(self, code_verifier, code_challenge, state, nonce) ==
    << <<K_client_id, self.client_id>>,
       <<K_scope, self.scope>>,
       <<K_redirect_uri, self.redirect_uri>>,
       <<K_code_challenge, code_challenge>>,
       <<K_code_challenge_method, self.code_challenge_method>>,
       <<K_state, code_verifier>>,
       <<K_nonce, nonce>> >>

\* Variant: the fields in the order of pkce's parameters (redirect_uri before
\* scope).
_gen_p_data_ParameterOrder(self, code_verifier, code_challenge, state, nonce) ==
    << <<K_client_id, self.client_id>>,
       <<K_redirect_uri, self.redirect_uri>>,
       <<K_scope, self.scope>>,
       <<K_code_challenge, code_challenge>>,
       <<K_code_challenge_method, self.code_challenge_method>>,
       <<K_state, state>>,
       <<K_nonce, nonce>> >>

\* The dict literal of _gen_p, in insertion order.
_gen_p_data(self, code_verifier, code_challenge, state, nonce) ==
    << <<K_client_id, self.client_id>>,
       <<K_scope, self.scope>>,
       <<K_redirect_uri, self.redirect_uri>>,
       <<K_code_challenge, code_challenge>>,
       <<K_code_challenge_method, self.code_challenge_method>>,
       <<K_state, state>>,
       <<K_nonce, nonce>> >>

\* Variant: the state is generated before the challenge is derived.
_gen_p_next_StateFirst(stmt) ==
    CASE stmt = "L220" -> "L222"
      [] stmt = "L222" -> "L221"
      [] stmt = "L221" -> "L223"
      [] stmt = "L223" -> "L225"

\* The statements of _gen_p, by line, and the statement that follows each.
_gen_p_next(stmt) ==
    CASE stmt = "L220" -> "L221"
      [] stmt = "L221" -> "L222"
      [] stmt = "L222" -> "L223"
      [] stmt = "L223" -> "L225"

(***************************************************************************)
(* Callers and their inputs                                                *)
(***************************************************************************)
Threads == 1..NumThreads
\* The thread of the specifications with one caller: the first one.
MainThread == CHOOSE c \in Threads : \A d \in Threads : c <= d

HS256 == <<72>> \o S256
s256 == <<115, 50, 53, 54>>
Methods == {S256, plain, HS256, s256}

\* client_id "abc", redirect_uri "h:/c", scope "o p"
Request1 == [client_id |-> <<97, 98, 99>>, redirect_uri |-> <<104, 58, 47, 99>>,
             scope |-> <<111, 32, 112>>]
\* client_id "a&b=", redirect_uri "%" e-acute "+~", scope ""
Request2 == [client_id |-> <<97, 38, 98, 61>>, redirect_uri |-> <<37, 233, 43, 126>>,
             scope |-> <<>>]
Requests == {Request1, Request2}

VerifierLengths == {0, 10, 31, 32, 33, 34, 96, 97, 128, 129, 200}
StateLengths == {-1, 0, 1, 32}
NonceLengths == {-1, 0, 2, 16}

Args(q, m, v, s, n) ==
    [client_id |-> q.client_id, redirect_uri |-> q.redirect_uri, scope |-> q.scope,
     code_challenge_method |-> m, code_verifier_length |-> v,
     state_length |-> s, nonce_length |-> n]

CallArgs ==
    {Args(q, m, v, s, n) : q \in Requests, m \in Methods, v \in VerifierLengths,
                           s \in StateLengths, n \in NonceLengths}

\* The one call each thread of the concurrent specification makes.
ThreadArgs(c) ==
    CASE c = 1 -> Args(Request1, S256, 32, 1, 2)
      [] c = 2 -> Args(Request2, plain, 33, 1, 0)
      [] c = 3 -> Args(Request1, HS256, 34, 1, 1)
      [] OTHER -> Args(Request2, S256, 10, 1, 1)

NoLocals == [name \in {} |-> <<>>]

Init ==
    /\ pc = [c \in Threads |-> "idle"]
    /\ args = [c \in Threads |-> None]
    /\ instance = [c \in Threads |-> None]
    /\ local = [c \in Threads |-> NoLocals]
    /\ outcome = [c \in Threads |-> None]
    /\ drawn = [c \in Threads |-> <<>>]
    /\ derived = None

\* Variant: one instance for the whole module, the first one constructed.
pkce_instance_Shared(c) ==
    IF \E d \in DOMAIN instance : instance[d] # None
    THEN instance[CHOOSE d \in DOMAIN instance : instance[d] # None /\ \A h \in DOMAIN instance : instance[h] # None => d <= h]
    ELSE instance[c]

\* The instance pkce constructed for call c, on which it calls _gen_p.
pkce_instance(c) == instance[c]

\* pkce(...): construct a PKCE instance and enter its _gen_p.
pkce(c, a) ==
    /\ pc[c] = "idle"
    /\ args' = [args EXCEPT ![c] = a]
    /\ instance' = [instance EXCEPT ![c] = PKCE_init(a.client_id, a.redirect_uri, a.scope,
                                             a.code_challenge_method)]
    /\ local' = [local EXCEPT ![c] = NoLocals]
    /\ outcome' = [outcome EXCEPT ![c] = None]
    /\ drawn' = [drawn EXCEPT ![c] = <<>>]
    /\ pc' = [pc EXCEPT ![c] = "L220"]
    /\ UNCHANGED derived

\* One assignment statement "name = <call>" of _gen_p: bind the name and go
\* on, or leave _gen_p (and pkce) with the exception the call raised.
Assign(c, stmt, name, o) ==
    /\ pc[c] = stmt
    /\ drawn' = [drawn EXCEPT ![c] = @ \o o.draws]
    /\ IF o.res.ok
       THEN /\ local' = [local EXCEPT ![c] = @ @@ (name :> o.res.val)]
            /\ pc' = [pc EXCEPT ![c] = _gen_p_next(stmt)]
            /\ UNCHANGED outcome
       ELSE /\ outcome' = [outcome EXCEPT ![c] = o.res]
            /\ pc' = [pc EXCEPT ![c] = "raised"]
            /\ UNCHANGED local
    /\ UNCHANGED <<args, instance, derived>>

\* code_verifier = self._code_v(code_verifier_length)
L220(c) ==
    /\ pc[c] = "L220"
    /\ \E o \in _code_v(pkce_instance(c), args[c].code_verifier_length) :
           Assign(c, "L220", "code_verifier", o)

\* code_challenge = self._code_c(code_verifier)
L221(c) ==
    /\ pc[c] = "L221"
    /\ Assign(c, "L221", "code_challenge",
              [res |-> _code_c(pkce_instance(c), local[c].code_verifier), draws |-> <<>>])

\* state = self._s(state_length)
L222(c) ==
    /\ pc[c] = "L222"
    /\ \E o \in _s(pkce_instance(c), args[c].state_length) : Assign(c, "L222", "state", o)

\* nonce = self._n(nonce_length)
L223(c) ==
    /\ pc[c] = "L223"
    /\ \E o \in _n(pkce_instance(c), args[c].nonce_length) : Assign(c, "L223", "nonce", o)

\* data = {...}; return urllib.parse.urlencode(data), code_verifier
L225(c) ==
    /\ pc[c] = "L225"
    /\ LET data == _gen_p_data(pkce_instance(c), local[c].code_verifier,
                               local[c].code_challenge, local[c].state, local[c].nonce)
       IN /\ local' = [local EXCEPT ![c] = @ @@ ("data" :> data)]
          /\ outcome' = [outcome EXCEPT ![c] =
                            Return(<<urlencode(data), local[c].code_verifier>>)]
    /\ pc' = [pc EXCEPT ![c] = "returned"]
    /\ UNCHANGED <<args, instance, drawn, derived>>

_gen_p(c) == L220(c) \/ L221(c) \/ L222(c) \/ L223(c) \/ L225(c)

\* One caller making one call.
Next ==
    \/ \E a \in CallArgs : pkce(MainThread, a)
    \/ _gen_p(MainThread)

Spec == Init /\ [][Next]_vars

(***************************************************************************)
(* Several callers, each making one call, their statements interleaved.    *)
(***************************************************************************)
NextConc ==
    \E c \in Threads :
        \/ pkce(c, ThreadArgs(c))
        \/ _gen_p(c)

SpecConc == Init /\ [][NextConc]_vars

(***************************************************************************)
(* Direct uses of the challenge derivation, PKCE(..., method)._code_c(v),  *)
(* before, between and after the statements of a pkce call.                *)
(***************************************************************************)
derive_challenge(code_verifier, method) ==
    _code_c(PKCE_init(<<>>, <<>>, <<>>, method), code_verifier)

\* "", "a=b c", a verifier of 32 random octets, and a one-character text
\* outside ASCII.
DeriveTexts ==
    {<<>>, <<97, 61, 98, 32, 99>>, rstrip(urlsafe_b64encode(Octets(1, 32)), 61), <<233>>}

DeriveCallArgs ==
    {Args(Request1, m, v, 1, 1) : m \in Methods, v \in {10, 32}}

Derive(v, m) ==
    /\ derived' = [v |-> v, method |-> m, out |-> derive_challenge(v, m)]
    /\ UNCHANGED <<pc, args, instance, local, outcome, drawn>>

NextDerive ==
    \/ \E v \in DeriveTexts, m \in Methods : Derive(v, m)
    \/ /\ pc[MainThread] = "returned"
       /\ \E m \in Methods : Derive(outcome[MainThread].val[2], m)
    \/ \E a \in DeriveCallArgs : pkce(MainThread, a)
    \/ _gen_p(MainThread)

SpecDerive == Init /\ [][NextDerive]_vars

(***************************************************************************)
(* Reading a payload back: what a receiver of the form-encoded text sees.  *)
(***************************************************************************)
HexValue(h) == IF h \in 48..57 THEN h - 48 ELSE h - 55

\* Undo quote_plus: "+" is a space, "%XX" an octet, and the octets are UTF-8.
Unquote(t) ==
    LET n == Len(t)
        Octet(i) ==
            IF t[i] = 37 /\ i + 2 <= n THEN <<HexValue(t[i + 1]) * 16 + HexValue(t[i + 2])>>
            ELSE IF (i > 1 /\ t[i - 1] = 37) \/ (i > 2 /\ t[i - 2] = 37) THEN <<>>
            ELSE IF t[i] = 43 THEN <<32>>
            ELSE <<t[i]>>
        bs == ConcatRange([i \in 1..n |-> Octet(i)], 1, n)
        m == Len(bs)
        Point(i) ==
            IF bs[i] < 128 THEN <<bs[i]>>
            ELSE IF bs[i] >= 192 /\ i < m THEN <<(bs[i] - 192) * 64 + (bs[i + 1] - 128)>>
            ELSE <<>>
    IN ConcatRange([i \in 1..m |-> Point(i)], 1, m)

\* The fields of a form-encoded text, in order: the text is cut at every "&"
\* and each piece at its first "=".
FormFields(t) ==
    LET n == Len(t)
        cuts == {i \in 1..n : t[i] = 38}
        k == Cardinality(cuts) + 1
        \* the position of the j-th "&" (0 before the text, n + 1 after it)
        Cut(j) == IF j = 0 THEN 0
                  ELSE IF j = k THEN n + 1
                  ELSE CHOOSE i \in cuts : Cardinality({h \in cuts : h < i}) = j - 1
        Piece(j) == SubSeq(t, Cut(j - 1) + 1, Cut(j) - 1)
        Field(q) ==
            LET eqs == {i \in 1..Len(q) : q[i] = 61}
                e == IF eqs = {} THEN Len(q) + 1
                     ELSE CHOOSE i \in eqs : \A h \in eqs : i <= h
            IN <<Unquote(SubSeq(q, 1, e - 1)), Unquote(SubSeq(q, e + 1, Len(q)))>>
    IN [j \in 1..k |-> Field(Piece(j))]

Called(c) == pc[c] # "idle"
Returned(c) == pc[c] = "returned"
Raised(c) == pc[c] = "raised"
Payload(c) == outcome[c].val[1]
Verifier(c) == outcome[c].val[2]
Fields(c) == FormFields(Payload(c))
Keys(c) == [i \in 1..Len(Fields(c)) |-> Fields(c)[i][1]]
\* The value of the first field named key (the payloads here have one).
FieldValue(c, key) ==
    LET fs == Fields(c)
        i == CHOOSE i \in 1..Len(fs) : fs[i][1] = key /\ \A h \in 1..(i - 1) : fs[h][1] # key
    IN fs[i][2]
HasField(c, key) == \E i \in 1..Len(Fields(c)) : Fields(c)[i][1] = key

\* URL-safe base64 with the padding removed.
B64UrlNoPad(bs) == rstrip(urlsafe_b64encode(bs), 61)

SevenKeys ==
    <<K_client_id, K_scope, K_redirect_uri, K_code_challenge, K_code_challenge_method,
      K_state, K_nonce>>

LengthAccepted(n) == 32 <= n /\ n <= 128
MethodSupported(m) == m = S256 \/ m = plain

(***************************************************************************)
(* C1.  Round trip: in every returned result, the code_challenge read back *)
(* from the payload is derive_challenge of the returned code verifier      *)
(* under the call's code_challenge_method.                                 *)
(***************************************************************************)
C1_RoundTrip ==
    \A c \in Threads :
        Returned(c) =>
            LET d == derive_challenge(Verifier(c), args[c].code_challenge_method)
            IN /\ d.ok
               /\ HasField(c, K_code_challenge)
               /\ FieldValue(c, K_code_challenge) = d.val

C1_Witness ==
    \E c \in Threads :
        /\ Returned(c)
        /\ args[c].code_challenge_method = S256
        /\ args[c].code_verifier_length = 128
        /\ FieldValue(c, K_code_challenge) # Verifier(c)

(***************************************************************************)
(* C2.  Every returned code verifier is between 43 and 128 characters      *)
(* long, whatever accepted code_verifier_length was asked for.             *)
(***************************************************************************)
C2_VerifierLength43To128 ==
    \A c \in Threads :
        Returned(c) => Len(Verifier(c)) >= 43 /\ Len(Verifier(c)) <= 128

C4_NonPositiveLengthNeverReturns ==
    \A c \in Threads :
        (/\ Called(c)
         /\ \/ args[c].code_verifier_length <= 0
            \/ args[c].state_length <= 0
            \/ args[c].nonce_length <= 0)
        => /\ ~Returned(c)
           /\ (Raised(c) => outcome[c].type = "ValueError")

(***************************************************************************)
(* C5.  With a code_challenge_method other than "S256" and "plain",        *)
(* deriving a challenge raises the method ValueError, and a pkce call with *)
(* otherwise valid arguments ends with that error after its second         *)
(* statement, yielding neither a payload nor a verifier.                   *)
(***************************************************************************)
C5_UnsupportedMethod ==
    /\ (derived # None /\ ~MethodSupported(derived.method))
           => derived.out = Raise("ValueError", MsgMethod)
    /\ \A c \in Threads :
           (Called(c) /\ ~MethodSupported(args[c].code_challenge_method)) =>
               /\ pc[c] \in {"L220", "L221", "raised"}
               /\ (pc[c] # "raised" => outcome[c] = None)
               /\ (Raised(c) /\ LengthAccepted(args[c].code_verifier_length))
                      => outcome[c] = Raise("ValueError", MsgMethod)

C5_Witness ==
    /\ derived # None
    /\ derived.method = HS256
    /\ derived.out = Raise("ValueError", MsgMethod)
    /\ \E c \in Threads :
           /\ Raised(c)
           /\ args[c].code_challenge_method = HS256
           /\ LengthAccepted(args[c].code_verifier_length)

(***************************************************************************)
(* C6 as stated.  In every returned result, no field of the payload has    *)
(* the returned code verifier as its value.                                *)
(***************************************************************************)
C6_NoFieldIsVerifier ==
    \A c \in Threads :
        Returned(c) => \A i \in 1..Len(Fields(c)) : Fields(c)[i][2] # Verifier(c)

(***************************************************************************)
(* C6 as amended.  With method plain the code_challenge field is the code  *)
(* verifier.  Apart from that, a field has the verifier as its value only  *)
(* when the field's own source happens to give the same text: the S256     *)
(* digest text of the verifier, the octets drawn for state or nonce being  *)
(* the octets drawn for the verifier, or a caller-supplied value.          *)
(***************************************************************************)
C6_VerifierOnlyAsPlainChallenge ==
    \A c \in Threads :
        Returned(c) =>
            LET fs == Fields(c)
                v == Verifier(c)
                a == args[c]
            IN /\ a.code_challenge_method = plain => FieldValue(c, K_code_challenge) = v
               /\ \A i \in 1..Len(fs) :
                      fs[i][2] = v =>
                          \/ fs[i][1] = K_code_challenge /\ a.code_challenge_method = plain
                          \/ /\ fs[i][1] = K_code_challenge
                             /\ a.code_challenge_method = S256
                             /\ B64UrlNoPad(sha256_digest(v)) = v
                          \/ fs[i][1] = K_state /\ drawn[c][2] = drawn[c][1]
                          \/ fs[i][1] = K_nonce /\ drawn[c][3] = drawn[c][1]
                          \/ fs[i][1] = K_client_id /\ a.client_id = v
                          \/ fs[i][1] = K_scope /\ a.scope = v
                          \/ fs[i][1] = K_redirect_uri /\ a.redirect_uri = v
                          \/ fs[i][1] = K_code_challenge_method /\ a.code_challenge_method = v

C6_Witness ==
    \E c \in Threads :
        /\ Returned(c)
        /\ args[c].code_challenge_method = plain
        /\ FieldValue(c, K_code_challenge) = Verifier(c)
        /\ FieldValue(c, K_state) # Verifier(c)

(***************************************************************************)
(* C7.  Every returned payload has exactly the seven fields client_id,     *)
(* scope, redirect_uri, code_challenge, code_challenge_method, state and   *)
(* nonce, once each and in that order; client_id, scope, redirect_uri and  *)
(* code_challenge_method read back as the caller gave them, state and      *)
(* nonce as the unpadded URL-safe base64 of the second and third draw of   *)
(* the call, which have the requested sizes.                               *)
(***************************************************************************)
C7_PayloadFields ==
    \A c \in Threads :
        Returned(c) =>
            LET fs == Fields(c)
                a == args[c]
            IN /\ Keys(c) = SevenKeys
               /\ fs[1][2] = a.client_id
               /\ fs[2][2] = a.scope
               /\ fs[3][2] = a.redirect_uri
               /\ fs[5][2] = a.code_challenge_method
               /\ Len(drawn[c]) = 3
               /\ Len(drawn[c][2]) = a.state_length
               /\ Len(drawn[c][3]) = a.nonce_length
               /\ fs[6][2] = B64UrlNoPad(drawn[c][2])
               /\ fs[7][2] = B64UrlNoPad(drawn[c][3])

C7_Witness ==
    \E c \in Threads :
        /\ Returned(c)
        /\ args[c].client_id = Request2.client_id
        /\ args[c].state_length = 1
        /\ args[c].nonce_length = 16
        /\ Len(Fields(c)) = 7
        /\ Fields(c)[3][2] = Request2.redirect_uri

SoloVerifier(d) == B64UrlNoPad(d[1])

SoloPayload(a, d) ==
    urlencode(<< <<K_client_id, a.client_id>>,
                 <<K_scope, a.scope>>,
                 <<K_redirect_uri, a.redirect_uri>>,
                 <<K_code_challenge,
                   derive_challenge(SoloVerifier(d), a.code_challenge_method).val>>,
                 <<K_code_challenge_method, a.code_challenge_method>>,
                 <<K_state, B64UrlNoPad(d[2])>>,
                 <<K_nonce, B64UrlNoPad(d[3])>> >>)

SoloError(a) ==
    IF ~LengthAccepted(a.code_verifier_length) THEN Raise("ValueError", MsgLength)
    ELSE IF ~MethodSupported(a.code_challenge_method) THEN Raise("ValueError", MsgMethod)
    ELSE Raise("ValueError", MsgNegative)

C9_CallsIndependent ==
    \A c \in Threads :
        Called(c) =>
            LET a == ThreadArgs(c)
            IN /\ args[c] = a
               /\ instance[c] = PKCE_init(a.client_id, a.redirect_uri, a.scope,
                                      a.code_challenge_method)
               /\ Returned(c) =>
                      LET fs == Fields(c)
                      IN /\ Len(drawn[c]) = 3
                         /\ Len(drawn[c][1]) = a.code_verifier_length
                         /\ outcome[c] =
                                Return(<<SoloPayload(a, drawn[c]), SoloVerifier(drawn[c])>>)
                         /\ Len(fs) = 7
                         /\ fs[1] = <<K_client_id, a.client_id>>
                         /\ fs[2] = <<K_scope, a.scope>>
                         /\ fs[3] = <<K_redirect_uri, a.redirect_uri>>
                         /\ fs[5] = <<K_code_challenge_method, a.code_challenge_method>>
                         /\ fs[4][1] = K_code_challenge
                         /\ Return(fs[4][2])
                                = derive_challenge(Verifier(c), a.code_challenge_method)
               /\ Raised(c) => outcome[c] = SoloError(a)

C9_Witness ==
    /\ Returned(1)
    /\ Returned(2)
    /\ Verifier(1) # Verifier(2)
    /\ FieldValue(1, K_client_id) = Request1.client_id
    /\ FieldValue(2, K_client_id) = Request2.client_id

(***************************************************************************)
(* C10.  The statements of a call run in the order verifier (validation    *)
(* first, then its draw), challenge, state, nonce, payload, and a failing  *)
(* one ends the call: the names bound and the draws made are always those  *)
(* of the statements before the current one.  A rejected length raises     *)
(* before any draw, also when the method is unsupported; an unsupported    *)
(* method raises after exactly the verifier's draw; a call that returned   *)
(* bound verifier, challenge, state, nonce and payload, and any other call *)
(* has no value.                                                           *)
(***************************************************************************)
NamesBefore(stmt) ==
    CASE stmt = "L220" -> {}
      [] stmt = "L221" -> {"code_verifier"}
      [] stmt = "L222" -> {"code_verifier", "code_challenge"}
      [] stmt = "L223" -> {"code_verifier", "code_challenge", "state"}
      [] stmt = "L225" -> {"code_verifier", "code_challenge", "state", "nonce"}
      [] stmt = "returned" -> {"code_verifier", "code_challenge", "state", "nonce", "data"}

DrawsBefore(stmt) ==
    CASE stmt = "L220" -> 0
      [] stmt \in {"L221", "L222"} -> 1
      [] stmt = "L223" -> 2
      [] stmt \in {"L225", "returned"} -> 3

\* The statement a raised call failed in, by its error and its arguments.
FailedIn(c) ==
    IF outcome[c] = Raise("ValueError", MsgLength) THEN "L220"
    ELSE IF outcome[c] = Raise("ValueError", MsgMethod) THEN "L221"
    ELSE IF args[c].state_length < 0 THEN "L222"
    ELSE "L223"

C10_StatementOrder ==
    \A c \in Threads :
        Called(c) =>
            LET a == args[c]
                at == IF Raised(c) THEN FailedIn(c) ELSE pc[c]
            IN /\ DOMAIN local[c] = NamesBefore(at)
               /\ Len(drawn[c]) = DrawsBefore(at)
               /\ Len(drawn[c]) >= 1 => Len(drawn[c][1]) = a.code_verifier_length
               /\ (outcome[c] = None) = (pc[c] \notin {"returned", "raised"})
               /\ Returned(c) => outcome[c].ok /\ Verifier(c) = local[c].code_verifier
               /\ Raised(c) =>
                      /\ ~outcome[c].ok
                      /\ outcome[c].type = "ValueError"
                      /\ outcome[c].msg \in {MsgLength, MsgMethod, MsgNegative}
                      /\ (outcome[c].msg = MsgLength) = ~LengthAccepted(a.code_verifier_length)
                      /\ (outcome[c].msg = MsgMethod) =
                             (/\ LengthAccepted(a.code_verifier_length)
                              /\ ~MethodSupported(a.code_challenge_method))
                      /\ (outcome[c].msg = MsgNegative) =>
                             (a.state_length < 0 \/ a.nonce_length < 0)

C10_Witness ==
    \E c \in Threads :
        /\ Raised(c)
        /\ outcome[c] = Raise("ValueError", MsgMethod)
        /\ Len(drawn[c]) = 1
        /\ DOMAIN local[c] = {"code_verifier"}
        /\ args[c].state_length = 32

=============================================================================
